---------------------------- MODULE Spec2Model ----------------------------
(***************************************************************************)
(* A model of the service-binding crate (src/src/service.rs):              *)
(*   - the Resolver, `impl TryFrom<&str> for Binding`, as the operator     *)
(*     TryFrom over strings represented as sequences of one-character      *)
(*     strings, the process environment and the platform;                  *)
(*   - the Materializer, `impl TryFrom<Binding> for Listener` / `Stream`,  *)
(*     as actions over a file system of Unix socket paths;                 *)
(*   - the non-blocking retry loop of `impl From<..> for Listener/Stream`. *)
(*                                                                         *)
(* Environment variables hold Unicode strings or are unset.  usize is the  *)
(* 64-bit usize of the tier-1 targets.                                     *)
(***************************************************************************)
EXTENDS Integers, Sequences, FiniteSets, TLC

VARIABLES
    \* the Resolver
    input,      \* the descriptor string handed to Binding::try_from
    env,        \* the process environment: LISTEN_FDS and LISTEN_FDNAMES
    platform,   \* the build target: "linux", "macos" or "windows"
    result,     \* what Binding::try_from returned
    rpc,        \* the resolver's position: "ready", "resolved" or "panicked"
    \* Listener::try_from(Binding::FilePath(..)) calls over a file system
    fs,         \* what each path names: nothing, a directory, a file or a socket file
    dir,        \* the mode of the directory that holds the paths
    path,       \* the path of each call's Binding::FilePath
    pc,         \* each call's position: "remove", "bind" or "done"
    ret,        \* what each call returned
    mode,       \* whether each returned listener is in non-blocking mode
    open,       \* the calls whose listener was returned and not yet dropped
    log,        \* the remove_file and bind steps in the order they ran
    \* one Listener::try_from / Stream::try_from call, step by step
    binding,    \* the Binding handed to try_from
    target,     \* "Listener" or "Stream"
    mpc,        \* "match", "call" (set_nonblocking), "test" (e.kind()), "done",
                \* "panicked"
    outcome,    \* what the last set_nonblocking(true) returned
    attempts,   \* the set_nonblocking calls made, counted up to MaxAttempts
    nonblocking,\* whether the handle is in non-blocking mode
    mret        \* what try_from returned

rvars == <<input, env, result, rpc>>
fvars == <<fs, dir, path, pc, ret, mode, open, log>>
mvars == <<binding, target, mpc, outcome, attempts, nonblocking, mret>>
vars  == <<rvars, platform, fvars, mvars>>

----------------------------------------------------------------------------
(* Strings *)

\* "fd://", "unix://", "npipe://", "tcp://" and the bare pipe prefix \\
FdPrefix    == <<"f", "d", ":", "/", "/">>
UnixPrefix  == <<"u", "n", "i", "x", ":", "/", "/">>
NpipePrefix == <<"n", "p", "i", "p", "e", ":", "/", "/">>
TcpPrefix   == <<"t", "c", "p", ":", "/", "/">>
BarePrefix  == <<"\\", "\\">>
\* r"\\.\pipe\" of format!(r"\\.\pipe\{file}")
PipeRoot    == <<"\\", "\\", ".", "\\", "p", "i", "p", "e", "\\">>

SD_LISTEN_FDS_START == 3

\* str::starts_with
StartsWith(s, p) ==
    /\ Len(s) >= Len(p)
    /\ SubSeq(s, 1, Len(p)) = p

\* str::strip_prefix: Some(rest) or None
StripPrefix(s, p) ==
    IF StartsWith(s, p)
    THEN [some |-> TRUE, rest |-> SubSeq(s, Len(p) + 1, Len(s))]
    ELSE [some |-> FALSE, rest |-> <<>>]

\* str::replace('/', "\\")
ReplaceSlash(file) ==
    [i \in 1..Len(file) |-> IF file[i] = "/" THEN "\\" ELSE file[i]]

\* names.split(':'): the pieces between the colons, at least one piece
RECURSIVE SplitFrom(_, _, _)
SplitFrom(str, i, piece) ==
    IF i > Len(str) THEN <<piece>>
    ELSE IF str[i] = ":" THEN <<piece>> \o SplitFrom(str, i + 1, <<>>)
    ELSE SplitFrom(str, i + 1, Append(piece, str[i]))

Split(str) == SplitFrom(str, 1, <<>>)

----------------------------------------------------------------------------
(* Integer parsing: <i32 as FromStr>::from_str and <usize as FromStr>::from_str *)

I32Max == 2147483647
I32Min == -2147483647 - 1

IsDigit(c) == c \in {"0", "1", "2", "3", "4", "5", "6", "7", "8", "9"}

DigitVal(c) ==
    CASE c = "0" -> 0 [] c = "1" -> 1 [] c = "2" -> 2 [] c = "3" -> 3
      [] c = "4" -> 4 [] c = "5" -> 5 [] c = "6" -> 6 [] c = "7" -> 7
      [] c = "8" -> 8 [] c = "9" -> 9

ParseOk(v) == [ok |-> TRUE, v |-> v]
ParseErr   == [ok |-> FALSE, v |-> 0]

\* the digit loop of a non-negative i32: checked_mul(10) then checked_add(d)
RECURSIVE AccPos(_, _, _)
AccPos(digits, i, acc) ==
    IF i > Len(digits) THEN ParseOk(acc)
    ELSE IF ~IsDigit(digits[i]) THEN ParseErr
    ELSE IF acc > (I32Max - DigitVal(digits[i])) \div 10 THEN ParseErr
    ELSE AccPos(digits, i + 1, acc * 10 + DigitVal(digits[i]))

\* the digit loop of a negative i32: checked_mul(10) then checked_sub(d)
RECURSIVE AccNeg(_, _, _)
AccNeg(digits, i, acc) ==
    IF i > Len(digits) THEN ParseOk(acc)
    ELSE IF ~IsDigit(digits[i]) THEN ParseErr
    ELSE IF acc < (I32Min + DigitVal(digits[i]) + 9) \div 10 THEN ParseErr
    ELSE AccNeg(digits, i + 1, acc * 10 - DigitVal(digits[i]))

\* str::parse::<i32>(): an optional sign, then at least one decimal digit
ParseI32(src) ==
    IF src = <<>> THEN ParseErr
    ELSE IF src = <<"+">> \/ src = <<"-">> THEN ParseErr
    ELSE IF src[1] = "-" THEN AccNeg(Tail(src), 1, 0)
    ELSE IF src[1] = "+" THEN AccPos(Tail(src), 1, 0)
    ELSE AccPos(src, 1, 0)

\* the decimal digits of usize::MAX = 18446744073709551615
UsizeMaxDigits ==
    <<"1", "8", "4", "4", "6", "7", "4", "4", "0", "7",
      "3", "7", "0", "9", "5", "5", "1", "6", "1", "5">>

\* A usize is held as four 16-bit limbs, the lowest first: it goes up to
\* 18446744073709551615, past the integers of the checker.
Limb == 65536
UsizeZero == <<0, 0, 0, 0>>

\* checked_mul(10) then checked_add(d) of a usize: the product and the sum
\* limb by limb, an error when a carry leaves the highest limb
MulAdd(u, d) ==
    LET t1 == u[1] * 10 + d
        t2 == u[2] * 10 + t1 \div Limb
        t3 == u[3] * 10 + t2 \div Limb
        t4 == u[4] * 10 + t3 \div Limb
    IN  IF t4 >= Limb THEN ParseErr
        ELSE ParseOk(<<t1 % Limb, t2 % Limb, t3 % Limb, t4 % Limb>>)

\* the digit loop of a usize
RECURSIVE AccUsize(_, _, _)
AccUsize(digits, i, acc) ==
    IF i > Len(digits) THEN ParseOk(acc)
    ELSE IF ~IsDigit(digits[i]) THEN ParseErr
    ELSE IF ~MulAdd(acc, DigitVal(digits[i])).ok THEN ParseErr
    ELSE AccUsize(digits, i + 1, MulAdd(acc, DigitVal(digits[i])).v)

\* str::parse::<usize>(): an optional +, then at least one decimal digit; a
\* leading - is an invalid digit of an unsigned type
ParseUsize(src) ==
    LET digits == IF src # <<>> /\ src[1] = "+" THEN Tail(src) ELSE src
    IN  IF digits = <<>> THEN ParseErr ELSE AccUsize(digits, 1, UsizeZero)

\* u + n of a usize and a number below Limb, as enumerate() counts on
UsizePlus(u, n) ==
    LET t1 == u[1] + n
        t2 == u[2] + t1 \div Limb
        t3 == u[3] + t2 \div Limb
        t4 == u[4] + t3 \div Limb
    IN  <<t1 % Limb, t2 % Limb, t3 % Limb, t4 % Limb>>

\* `fd_index < fds` of two usize
UsizeLess(a, b) ==
    \E i \in 1..4 :
        /\ a[i] < b[i]
        /\ \A j \in (i + 1)..4 : a[j] = b[j]

\* `fd_index as i32`: the low 32 bits, read as a signed number
AsI32(fd_index) ==
    IF fd_index[2] >= Limb \div 2
    THEN (fd_index[2] - Limb) * Limb + fd_index[1]
    ELSE fd_index[2] * Limb + fd_index[1]

\* a + b in i32, a not negative.  Past i32::MAX a build with overflow checks
\* panics and one without wraps round.
AddI32(a, b, checks) ==
    IF b <= I32Max - a THEN [panic |-> FALSE, v |-> a + b]
    ELSE IF checks THEN [panic |-> TRUE, v |-> 0]
    ELSE [panic |-> FALSE, v |-> I32Min + (b - (I32Max - a) - 1)]

----------------------------------------------------------------------------
(* Binding, Error and Binding::try_from *)

FileDescriptor(fd) == [tag |-> "FileDescriptor", fd |-> fd]
FilePath(file)     == [tag |-> "FilePath", path |-> file]
Sockets(addrs)     == [tag |-> "Sockets", addrs |-> addrs]
NamedPipe(pipe)    == [tag |-> "NamedPipe", pipe |-> pipe]

Ok(b)       == [ok |-> TRUE, binding |-> b]
Err(error)  == [ok |-> FALSE, error |-> error]

BadAddress              == [kind |-> "BadAddress"]
BadDescriptor           == [kind |-> "BadDescriptor"]
DescriptorOutOfRange(n) == [kind |-> "DescriptorOutOfRange", n |-> n]
DescriptorsMissing      == [kind |-> "DescriptorsMissing"]
UnsupportedScheme       == [kind |-> "UnsupportedScheme"]

\* try_from does not return: `attempt to add with overflow` unwinds
Panic == [ok |-> FALSE, error |-> [kind |-> "panic"]]

\* std::env::var: Ok(value) of a set variable, Err of an unset one
Var(e, name) == e[name]
\* A value is `lead` colons followed by the characters of val: a long run of
\* empty names at the head of LISTEN_FDNAMES is held by its length, written
\* in decimal.
NoLead            == <<"0">>
Unset             == [set |-> FALSE, lead |-> NoLead, val |-> <<>>]
Value(str)        == [set |-> TRUE, lead |-> NoLead, val |-> str]
Padded(lead, str) == [set |-> TRUE, lead |-> lead, val |-> str]

\* the value as a number parser reads it: up to the first colon, if any
Chars(v) == IF v.lead = NoLead THEN v.val ELSE <<":">> \o v.val

\* EmptyNameFd accepting every count of at least one
EmptyNameFd_AtLeastOne(e) ==
    IF Var(e, "LISTEN_FDS").set
    THEN LET fds == ParseI32(Chars(Var(e, "LISTEN_FDS")))
         IN  IF ~fds.ok THEN Err(BadDescriptor)
             ELSE IF fds.v < 1 THEN Err(DescriptorOutOfRange(fds.v))
             ELSE Ok(FileDescriptor(SD_LISTEN_FDS_START))
    ELSE Err(DescriptorsMissing)

\* `fd://` with an empty name: the count of LISTEN_FDS, which must be 1
EmptyNameFd(e) ==
    IF Var(e, "LISTEN_FDS").set
    THEN LET fds == ParseI32(Chars(Var(e, "LISTEN_FDS")))
         IN  IF ~fds.ok THEN Err(BadDescriptor)
             ELSE IF fds.v # 1 THEN Err(DescriptorOutOfRange(fds.v))
             ELSE Ok(FileDescriptor(SD_LISTEN_FDS_START))
    ELSE Err(DescriptorsMissing)

\* `return Ok(Binding::FileDescriptor(SD_LISTEN_FDS_START + fd_index as i32))`
Found(fd_index, checks) ==
    LET fd == AddI32(SD_LISTEN_FDS_START, AsI32(fd_index), checks)
    IN  IF fd.panic THEN Panic ELSE Ok(FileDescriptor(fd.v))

\* the for loop over names.split(':').enumerate() from the i-th name behind
\* the leading run on: the first fd_index with fd_name == name and
\* fd_index < fds returns
RECURSIVE ScanNames(_, _, _, _, _, _)
ScanNames(pieces, i, lead, name, fds, checks) ==
    IF i >= Len(pieces) THEN Err(DescriptorsMissing)
    ELSE IF pieces[i + 1] = name /\ UsizeLess(UsizePlus(lead, i), fds)
         THEN Found(UsizePlus(lead, i), checks)
    ELSE ScanNames(pieces, i + 1, lead, name, fds, checks)

\* The whole loop.  Its turns over the leading run of empty names are taken
\* at once: an empty fd_name equals `name` only when name is empty, and the
\* first turn then returns.
ScanAll(names, name, fds, checks) ==
    LET lead == ParseUsize(names.lead).v
    IN  IF lead # UsizeZero /\ name = <<>> /\ UsizeLess(UsizeZero, fds)
        THEN Found(UsizeZero, checks)
        ELSE ScanNames(Split(names.val), 0, lead, name, fds, checks)

\* EnvNamedFd without the `fd_index < fds` test
EnvNamedFd_IgnoreCount(name, e, checks) ==
    IF Var(e, "LISTEN_FDNAMES").set /\ Var(e, "LISTEN_FDS").set
    THEN LET fds == ParseUsize(Chars(Var(e, "LISTEN_FDS")))
         IN  IF ~fds.ok THEN Err(BadDescriptor)
             ELSE ScanAll(Var(e, "LISTEN_FDNAMES"), name,
                          ParseUsize(UsizeMaxDigits).v, checks)
    ELSE Err(DescriptorsMissing)

\* EnvNamedFd with `if let Ok(fds) = fds.parse()` in place of `fds.parse()?`
EnvNamedFd_SwallowParse(name, e, checks) ==
    IF Var(e, "LISTEN_FDNAMES").set /\ Var(e, "LISTEN_FDS").set
    THEN LET fds == ParseUsize(Chars(Var(e, "LISTEN_FDS")))
         IN  IF ~fds.ok THEN Err(DescriptorsMissing)
             ELSE ScanAll(Var(e, "LISTEN_FDNAMES"), name, fds.v, checks)
    ELSE Err(DescriptorsMissing)

\* cfg(not(target_os = "macos")): the lookup in LISTEN_FDNAMES and LISTEN_FDS
EnvNamedFd(name, e, checks) ==
    IF Var(e, "LISTEN_FDNAMES").set /\ Var(e, "LISTEN_FDS").set
    THEN LET fds == ParseUsize(Chars(Var(e, "LISTEN_FDS")))
         IN  IF ~fds.ok THEN Err(BadDescriptor)
             ELSE ScanAll(Var(e, "LISTEN_FDNAMES"), name, fds.v, checks)
    ELSE Err(DescriptorsMissing)

\* cfg(target_os = "macos"): raunch::activate_socket(name), whose outcome
\* `activated` is launchd's: an error or the list of descriptors
LaunchdNamedFd(activated) ==
    IF ~activated.ok THEN Err(DescriptorsMissing)
    ELSE IF Len(activated.fds) = 1 THEN Ok(FileDescriptor(activated.fds[1]))
    ELSE Err(DescriptorOutOfRange(Len(activated.fds)))

\* ResolveFd consulting the environment before the explicit number
ResolveFd_NamesFirst(name, e, plat, activated, checks) ==
    IF name = <<>> THEN EmptyNameFd(e)
    ELSE IF plat # "macos" /\ Var(e, "LISTEN_FDNAMES").set THEN EnvNamedFd(name, e, checks)
    ELSE IF ParseI32(name).ok THEN Ok(FileDescriptor(ParseI32(name).v))
    ELSE IF plat = "macos" THEN LaunchdNamedFd(activated)
    ELSE EnvNamedFd(name, e, checks)

\* the fd:// branch
ResolveFd(name, e, plat, activated, checks) ==
    IF name = <<>> THEN EmptyNameFd(e)
    ELSE IF ParseI32(name).ok THEN Ok(FileDescriptor(ParseI32(name).v))
    ELSE IF plat = "macos" THEN LaunchdNamedFd(activated)
    ELSE EnvNamedFd(name, e, checks)

\* ResolveNpipe keeping the slashes of an absolute path
ResolveNpipe_NoFold(file) ==
    IF file # <<>> /\ file[1] \in {".", "/", "\\"}
    THEN Ok(NamedPipe(file))
    ELSE Ok(NamedPipe(PipeRoot \o file))

\* the npipe:// branch
ResolveNpipe(file) ==
    IF file # <<>> /\ file[1] \in {".", "/", "\\"}
    THEN Ok(NamedPipe(ReplaceSlash(file)))
    ELSE Ok(NamedPipe(PipeRoot \o file))

\* the tcp:// branch: addr.to_socket_addrs(), whose outcome `resolved` is the
\* address parser's and the name resolver's: an error or a list of addresses
ResolveTcp(resolved) ==
    IF resolved.ok THEN Ok(Sockets(resolved.addrs)) ELSE Err(BadAddress)

\* TryFrom taking a single backslash for the bare pipe prefix
TryFrom_SingleBackslash(s, e, plat, activated, resolved, checks) ==
    IF StripPrefix(s, FdPrefix).some
    THEN ResolveFd(StripPrefix(s, FdPrefix).rest, e, plat, activated, checks)
    ELSE IF StripPrefix(s, UnixPrefix).some
    THEN Ok(FilePath(StripPrefix(s, UnixPrefix).rest))
    ELSE IF StripPrefix(s, NpipePrefix).some
    THEN ResolveNpipe(StripPrefix(s, NpipePrefix).rest)
    ELSE IF StripPrefix(s, TcpPrefix).some
    THEN ResolveTcp(resolved)
    ELSE IF StartsWith(s, <<"\\">>)
    THEN Ok(NamedPipe(s))
    ELSE Err(UnsupportedScheme)

\* impl TryFrom<&str> for Binding; `checks` is the build's overflow-checks
TryFrom(s, e, plat, activated, resolved, checks) ==
    IF StripPrefix(s, FdPrefix).some
    THEN ResolveFd(StripPrefix(s, FdPrefix).rest, e, plat, activated, checks)
    ELSE IF StripPrefix(s, UnixPrefix).some
    THEN Ok(FilePath(StripPrefix(s, UnixPrefix).rest))
    ELSE IF StripPrefix(s, NpipePrefix).some
    THEN ResolveNpipe(StripPrefix(s, NpipePrefix).rest)
    ELSE IF StripPrefix(s, TcpPrefix).some
    THEN ResolveTcp(resolved)
    ELSE IF StartsWith(s, BarePrefix)
    THEN Ok(NamedPipe(s))
    ELSE Err(UnsupportedScheme)

----------------------------------------------------------------------------
(* The resolver's inputs *)

MaxRest  == 2    \* generated remainders have at most this many characters
MaxNames == 2    \* generated LISTEN_FDNAMES values have at most this many

SeqsUpTo(alphabet, n) == UNION {[1..k -> alphabet] : k \in 0..n}

\* what precedes the remainder: every scheme of the table, and near misses
Heads ==
    { <<>>, FdPrefix, UnixPrefix, NpipePrefix, TcpPrefix, BarePrefix,
      <<"\\">>,
      <<"f", "d", ":", "/">>,
      <<"u", "n", "k", "n", "o", "w", "n", ":", "/", "/">> }

RestAlphabet == {"a", "1", "/", "\\"}

SpecialRests ==
    { <<"t", "e", "s", "t">>,
      <<"/", "/", ".", "/", "p", "i", "p", "e", "/", "t", "e", "s", "t">>,
      <<".", "/", "a">>,
      <<".">>,
      <<"s", "e", "r", "v", "i", "c", "e", "-", "n", "a", "m", "e">>,
      <<"a", ":", "a">>,
      <<"+", "7">>,
      <<"-", "7">>,
      <<"0", "0", "7">>,
      <<"2", "1", "4", "7", "4", "8", "3", "6", "4", "7">>,
      <<"2", "1", "4", "7", "4", "8", "3", "6", "4", "8">>,
      <<"-", "2", "1", "4", "7", "4", "8", "3", "6", "4", "8">>,
      <<"-", "2", "1", "4", "7", "4", "8", "3", "6", "4", "9">> }

Rests == SeqsUpTo(RestAlphabet, MaxRest) \cup SpecialRests

Inputs == {h \o r : h \in Heads, r \in Rests}

FdsValues ==
    { <<>>, <<"0">>, <<"1">>, <<"2">>, <<"3">>, <<"+", "1">>, <<"-", "1">>,
      <<"3", "a">>,
      <<"2", "1", "4", "7", "4", "8", "3", "6", "4", "8">>,
      UsizeMaxDigits,
      <<"1", "8", "4", "4", "6", "7", "4", "4", "0", "7",
        "3", "7", "0", "9", "5", "5", "1", "6", "1", "6">> }

NamesAlphabet == {"a", "b", ":"}

SpecialNames ==
    { <<"o", "t", "h", "e", "r", ":",
        "s", "e", "r", "v", "i", "c", "e", "-", "n", "a", "m", "e">>,
      <<"a", ":", "a">>,
      <<"b", ":", "b", ":", "a">>,
      <<"a", ":", "a", ":", "a">> }

NamesValues == SeqsUpTo(NamesAlphabet, MaxNames) \cup SpecialNames

\* lengths of a leading run of empty names: 2147483644, 2147483645,
\* 2147483648 and 4294967296
Leads ==
    { <<"2", "1", "4", "7", "4", "8", "3", "6", "4", "4">>,
      <<"2", "1", "4", "7", "4", "8", "3", "6", "4", "5">>,
      <<"2", "1", "4", "7", "4", "8", "3", "6", "4", "8">>,
      <<"4", "2", "9", "4", "9", "6", "7", "2", "9", "6">> }

LongNames ==
    {Padded(l, v) : l \in Leads, v \in {<<"a">>, <<"b", ":", "a">>}}

Envs ==
    [ { "LISTEN_FDS" } -> {Unset} \cup {Value(v) : v \in FdsValues} ]
    \X
    [ { "LISTEN_FDNAMES" } ->
        {Unset} \cup {Value(v) : v \in NamesValues} \cup LongNames ]

Platforms == {"linux", "macos", "windows"}

\* outcomes of raunch::activate_socket
Activations ==
    { [ok |-> FALSE, fds |-> <<>>], [ok |-> TRUE, fds |-> <<>>],
      [ok |-> TRUE, fds |-> <<5>>], [ok |-> TRUE, fds |-> <<5, 6>>] }

\* outcomes of to_socket_addrs
Resolutions ==
    { [ok |-> FALSE, addrs |-> <<>>], [ok |-> TRUE, addrs |-> <<"v4">>],
      [ok |-> TRUE, addrs |-> <<"v4", "v6">>] }

NoResult == [ok |-> FALSE, error |-> [kind |-> "none"]]

----------------------------------------------------------------------------
(* The resolver as a state machine: one call of Binding::try_from *)

\* no resolver call, no FilePath call, no step-by-step call is under way
ResolverIdle ==
    /\ input = <<>>
    /\ env = [n \in {"LISTEN_FDS", "LISTEN_FDNAMES"} |-> Unset]
    /\ result = NoResult
    /\ rpc = "idle"
FilesIdle ==
    /\ fs = <<>>
    /\ dir = "none"
    /\ path = <<>>
    /\ pc = <<>>
    /\ ret = <<>>
    /\ mode = <<>>
    /\ open = {}
    /\ log = <<>>
MaterializerIdle ==
    /\ binding = [tag |-> "none"]
    /\ target = "none"
    /\ mpc = "idle"
    /\ outcome = "none"
    /\ attempts = 0
    /\ nonblocking = FALSE
    /\ mret = NoResult

ResolveInit ==
    /\ input \in Inputs
    /\ \E e \in Envs :
          env = [n \in {"LISTEN_FDS", "LISTEN_FDNAMES"} |->
                    IF n = "LISTEN_FDS" THEN e[1][n] ELSE e[2][n]]
    /\ platform \in Platforms
    /\ result = NoResult
    /\ rpc = "ready"
    /\ FilesIdle
    /\ MaterializerIdle

\* The outcomes to draw for one call: launchd is asked only for fd:// on
\* macOS, the address resolver only for tcp://, and the build's overflow
\* checks bear only on fd://; a call that is not made has one outcome.
Asked(s, plat) ==
    IF plat = "macos" /\ StartsWith(s, FdPrefix)
    THEN Activations ELSE {[ok |-> FALSE, fds |-> <<>>]}
Looked(s) ==
    IF StartsWith(s, TcpPrefix)
    THEN Resolutions ELSE {[ok |-> FALSE, addrs |-> <<>>]}
Builds(s) == IF StartsWith(s, FdPrefix) THEN BOOLEAN ELSE {FALSE}

Resolve ==
    /\ rpc = "ready"
    /\ \E activated \in Asked(input, platform), resolved \in Looked(input),
          checks \in Builds(input) :
          LET returned == TryFrom(input, env, platform, activated, resolved,
                                  checks)
          IN  IF returned = Panic
              THEN /\ result' = result
                   /\ rpc' = "panicked"
              ELSE /\ result' = returned
                   /\ rpc' = "resolved"
    /\ UNCHANGED <<input, env, platform, fvars, mvars>>

ResolveNext == Resolve

ResolveSpec == ResolveInit /\ [][ResolveNext]_vars

----------------------------------------------------------------------------
(* Vocabulary of the claims about the resolver, stated without the          *)
(* resolver's own operators                                                 *)

Resolved == rpc = "resolved"
\* the call is over: it returned or it panicked
Ended    == rpc \in {"resolved", "panicked"}

HasPrefix(s, p) == Len(p) <= Len(s) /\ \A i \in 1..Len(p) : s[i] = p[i]
After(s, p)     == [i \in 1..(Len(s) - Len(p)) |-> s[i + Len(p)]]

DecDigits == <<"0", "1", "2", "3", "4", "5", "6", "7", "8", "9">>
DigitOf(c) == (CHOOSE k \in 1..10 : DecDigits[k] = c) - 1

\* one or more decimal digits
Unsigned(str) ==
    str # <<>> /\ \A i \in 1..Len(str) : \E k \in 1..10 : DecDigits[k] = str[i]
\* decimal digits after an optional sign
Signed(str) ==
    \/ Unsigned(str)
    \/ Len(str) >= 2 /\ str[1] \in {"+", "-"} /\ Unsigned(Tail(str))
\* the digits of a decimal number from its first non-zero digit on
Significant(str) ==
    LET d  == IF str[1] \in {"+", "-"} THEN Tail(str) ELSE str
        nz == {i \in 1..Len(d) : d[i] # "0"}
    IN  IF nz = {} THEN <<>>
        ELSE SubSeq(d, CHOOSE i \in nz : \A j \in nz : i <= j, Len(d))
\* sig <= limit as decimal numbers without leading zeros
AtMost(sig, limit) ==
    \/ Len(sig) < Len(limit)
    \/ /\ Len(sig) = Len(limit)
       /\ \/ sig = limit
          \/ \E i \in 1..Len(sig) :
                /\ DigitOf(sig[i]) < DigitOf(limit[i])
                /\ \A j \in 1..(i - 1) : sig[j] = limit[j]

RECURSIVE PosSum(_)
PosSum(sig) ==
    IF sig = <<>> THEN 0
    ELSE 10 * PosSum(SubSeq(sig, 1, Len(sig) - 1)) + DigitOf(sig[Len(sig)])
RECURSIVE NegSum(_)
NegSum(sig) ==
    IF sig = <<>> THEN 0
    ELSE 10 * NegSum(SubSeq(sig, 1, Len(sig) - 1)) - DigitOf(sig[Len(sig)])

\* str is a decimal integer of the 32-bit signed range
FitsI32(str) ==
    /\ Signed(str)
    /\ IF str[1] = "-"
       THEN AtMost(Significant(str),
                   <<"2", "1", "4", "7", "4", "8", "3", "6", "4", "8">>)
       ELSE AtMost(Significant(str),
                   <<"2", "1", "4", "7", "4", "8", "3", "6", "4", "7">>)
\* the integer a string with FitsI32 denotes
Number(str) ==
    IF str[1] = "-" THEN NegSum(Significant(str)) ELSE PosSum(Significant(str))

\* str is a count: a non-negative decimal integer of the usize range
IsCount(str) ==
    /\ Unsigned(str) \/ (Len(str) >= 2 /\ str[1] = "+" /\ Unsigned(Tail(str)))
    /\ AtMost(Significant(str),
              <<"1", "8", "4", "4", "6", "7", "4", "4", "0", "7",
                "3", "7", "0", "9", "5", "5", "1", "6", "1", "5">>)
\* Numbers past the 32-bit range are compared as decimal numerals without
\* leading zeros, zero being the empty numeral.
RECURSIVE Numeral(_)
Numeral(n) ==
    IF n = 0 THEN <<>> ELSE Append(Numeral(n \div 10), DecDigits[(n % 10) + 1])
\* the numeral of num + n
RECURSIVE Sum(_, _)
Sum(num, n) ==
    IF n = 0 THEN num
    ELSE IF num = <<>> THEN Numeral(n)
    ELSE LET t == DigitOf(num[Len(num)]) + n
         IN  Append(Sum(SubSeq(num, 1, Len(num) - 1), t \div 10),
                    DecDigits[(t % 10) + 1])
\* the numeral lies below the count str denotes
BelowCount(num, str) ==
    AtMost(num, Significant(str)) /\ num # Significant(str)

\* the colon-separated list: piece k lies between the (k-1)-th and k-th colon
Pieces(str) ==
    LET colons == {i \in 1..Len(str) : str[i] = ":"}
        nth(k) == IF k = 0 THEN 0
                  ELSE IF k > Cardinality(colons) THEN Len(str) + 1
                  ELSE CHOOSE c \in colons :
                          Cardinality({x \in colons : x <= c}) = k
    IN  [k \in 1..(Cardinality(colons) + 1) |->
            SubSeq(str, nth(k - 1) + 1, nth(k) - 1)]

FdsVar   == env["LISTEN_FDS"]
NamesVar == env["LISTEN_FDNAMES"]
FdName   == After(input, FdPrefix)

\* `fd://<name>` with a non-empty name that is no explicit descriptor number
NamedFdInput ==
    /\ HasPrefix(input, FdPrefix)
    /\ FdName # <<>>
    /\ ~FitsI32(FdName)

\* the zero-based position in LISTEN_FDNAMES of the i-th name behind its
\* leading run of empty names
Index(i) == Sum(Significant(NamesVar.lead), i)

\* the names behind the leading run that hold the requested name at a
\* position below the count of LISTEN_FDS (an empty name is never requested)
Matches ==
    {i \in 0..(Len(Pieces(NamesVar.val)) - 1) :
        /\ Pieces(NamesVar.val)[i + 1] = FdName
        /\ BelowCount(Index(i), FdsVar.val)}

ErrorKind(r) == IF r.ok THEN "" ELSE r.error.kind
BindingTag(r) == IF r.ok THEN r.binding.tag ELSE ""

----------------------------------------------------------------------------
(* Claims about the resolver *)

MatchesNoScheme ==
    /\ ~HasPrefix(input, FdPrefix)
    /\ ~HasPrefix(input, UnixPrefix)
    /\ ~HasPrefix(input, NpipePrefix)
    /\ ~HasPrefix(input, TcpPrefix)
    /\ ~HasPrefix(input, BarePrefix)

\* C1: a string that starts with none of fd://, unix://, npipe://, tcp://, \\
\* fails with UnsupportedScheme; a string that starts with one of them gets
\* that prefix's outcome and never UnsupportedScheme, in every environment
\* and on every platform.
C1_PrefixDispatch ==
    Resolved =>
        /\ MatchesNoScheme <=> result = Err(UnsupportedScheme)
        /\ HasPrefix(input, FdPrefix) =>
              \/ BindingTag(result) = "FileDescriptor"
              \/ ErrorKind(result) \in
                    {"BadDescriptor", "DescriptorOutOfRange", "DescriptorsMissing"}
        /\ HasPrefix(input, UnixPrefix) =>
              result = Ok(FilePath(After(input, UnixPrefix)))
        /\ HasPrefix(input, NpipePrefix) =>
              BindingTag(result) = "NamedPipe" /\ result.binding.pipe # input
        /\ HasPrefix(input, TcpPrefix) =>
              \/ BindingTag(result) = "Sockets"
              \/ ErrorKind(result) = "BadAddress"
        /\ HasPrefix(input, BarePrefix) => result = Ok(NamedPipe(input))

\* `unknown://test` or `\test` was refused while LISTEN_FDS was set
C1_Witness ==
    /\ Resolved
    /\ \/ input = <<"u", "n", "k", "n", "o", "w", "n", ":", "/", "/",
                    "t", "e", "s", "t">>
       \/ input = <<"\\", "t", "e", "s", "t">>
    /\ FdsVar.set
    /\ result = Err(UnsupportedScheme)

\* C2: `fd://` depends only on LISTEN_FDS: unset gives DescriptorsMissing, a
\* value that is no integer gives BadDescriptor, an integer other than 1
\* gives DescriptorOutOfRange of that integer, 1 gives FileDescriptor(3).
C2_EmptyName ==
    (Resolved /\ input = FdPrefix) =>
        /\ ~FdsVar.set => result = Err(DescriptorsMissing)
        /\ (FdsVar.set /\ ~FitsI32(FdsVar.val)) => result = Err(BadDescriptor)
        /\ (FdsVar.set /\ FitsI32(FdsVar.val) /\ Number(FdsVar.val) # 1) =>
              result = Err(DescriptorOutOfRange(Number(FdsVar.val)))
        /\ (FdsVar.set /\ FitsI32(FdsVar.val) /\ Number(FdsVar.val) = 1) =>
              result = Ok(FileDescriptor(3))

\* `fd://` was refused for a count of 2 while LISTEN_FDNAMES names two sockets
C2_Witness ==
    /\ Resolved
    /\ input = FdPrefix
    /\ FdsVar = Value(<<"2">>)
    /\ NamesVar = Value(<<"a", ":">>)
    /\ result = Err(DescriptorOutOfRange(2))

\* the smallest position that holds the requested name below the count
FirstMatch == CHOOSE i \in Matches : \A j \in Matches : i <= j

\* the zero-based position of that name in LISTEN_FDNAMES
FirstIndex == Index(FirstMatch)

\* 3 + i is a 32-bit signed number: i <= 2147483644
DescriptorFits ==
    AtMost(FirstIndex, <<"2", "1", "4", "7", "4", "8", "3", "6", "4", "4">>)

\* the call returned FileDescriptor(3 + i) for the first matching position i,
\* a descriptor of 3 .. 3+n-1
ReturnedFirstMatch ==
    /\ Resolved
    /\ BindingTag(result) = "FileDescriptor"
    /\ result.binding.fd >= 3
    /\ Numeral(result.binding.fd - 3) = FirstIndex
    /\ BelowCount(Numeral(result.binding.fd - 3), FdsVar.val)

NamedLookup ==
    /\ Ended
    /\ platform # "macos"
    /\ NamedFdInput
    /\ NamesVar.set
    /\ FdsVar.set
    /\ IsCount(FdsVar.val)

\* C3 as stated: off macOS, `fd://<name>` with a name that is no number,
\* LISTEN_FDNAMES set and LISTEN_FDS set to a count n yields
\* FileDescriptor(3 + i) for the smallest position i < n that holds the
\* name, so a descriptor of 3 .. 3+n-1, and DescriptorsMissing when no such
\* position exists.
C3_Original ==
    NamedLookup =>
        /\ Matches # {} => ReturnedFirstMatch
        /\ Matches = {} => (Resolved /\ result = Err(DescriptorsMissing))

\* C3, amended: the same while 3 + i is a 32-bit signed number, that is for
\* i <= 2147483644.  For a larger i the call panics or returns a
\* FileDescriptor that is not 3 + i: the position's low 32 bits, read as
\* signed, plus 3, wrapped round in a build without overflow checks.
C3_NamedLookup ==
    NamedLookup =>
        /\ (Matches # {} /\ DescriptorFits) => ReturnedFirstMatch
        /\ (Matches # {} /\ ~DescriptorFits) =>
              \/ rpc = "panicked"
              \/ /\ Resolved
                 /\ BindingTag(result) = "FileDescriptor"
                 /\ \/ result.binding.fd < 3
                    \/ Numeral(result.binding.fd - 3) # FirstIndex
        /\ Matches = {} => (Resolved /\ result = Err(DescriptorsMissing))

\* the requested name is not the first entry of LISTEN_FDNAMES and the
\* count 2 reaches the position that holds it
C3_Witness ==
    /\ Resolved
    /\ platform = "linux"
    /\ NamedFdInput
    /\ NamesVar.set
    /\ FdsVar = Value(<<"2">>)
    /\ Cardinality({i \in 1..Len(Pieces(NamesVar.val)) :
                       Pieces(NamesVar.val)[i] = FdName}) >= 1
    /\ Pieces(NamesVar.val)[1] # FdName
    /\ result = Ok(FileDescriptor(4))

\* the name is found only at a position that is not below the count
C3_WitnessBeyondCount ==
    /\ Resolved
    /\ platform = "linux"
    /\ NamedFdInput
    /\ NamesVar.set
    /\ FdsVar = Value(<<"1">>)
    /\ Len(Pieces(NamesVar.val)) >= 2
    /\ Pieces(NamesVar.val)[2] = FdName
    /\ result = Err(DescriptorsMissing)

\* the name sits at position 2147483645 below the count: a build without
\* overflow checks returned the descriptor 3 + 2147483645 wrapped round
C3_WitnessWrapped ==
    /\ Resolved
    /\ platform = "linux"
    /\ NamedFdInput
    /\ NamesVar = Padded(<<"2", "1", "4", "7", "4", "8", "3", "6", "4", "5">>,
                         <<"a">>)
    /\ FdsVar = Value(<<"2", "1", "4", "7", "4", "8", "3", "6", "4", "8">>)
    /\ result = Ok(FileDescriptor(I32Min))

\* the same lookup in a build with overflow checks: the call panicked
C3_WitnessPanicked ==
    /\ rpc = "panicked"
    /\ platform = "linux"
    /\ NamedLookup
    /\ Matches # {}
    /\ FirstIndex = <<"2", "1", "4", "7", "4", "8", "3", "6", "4", "5">>

\* the name sits at position 4294967296: the descriptor returned is 3
C3_WitnessTruncated ==
    /\ Resolved
    /\ platform = "linux"
    /\ NamedLookup
    /\ Matches # {}
    /\ FirstIndex = <<"4", "2", "9", "4", "9", "6", "7", "2", "9", "6">>
    /\ result = Ok(FileDescriptor(3))

\* the name sits at position 2147483644, the last whose descriptor fits
C3_WitnessLastFit ==
    /\ Resolved
    /\ platform = "linux"
    /\ NamedLookup
    /\ Matches # {}
    /\ FirstIndex = <<"2", "1", "4", "7", "4", "8", "3", "6", "4", "4">>
    /\ result = Ok(FileDescriptor(I32Max))

\* no name of LISTEN_FDNAMES equals the requested name
NoNameEquals ==
    \A i \in 1..Len(Pieces(NamesVar.val)) : Pieces(NamesVar.val)[i] # FdName

\* C4 as stated: off macOS, a named `fd://<name>` fails with
\* DescriptorsMissing whenever a variable is missing, no name equals <name>,
\* or the matching position is not below the count, whatever LISTEN_FDS holds.
C4_Original ==
    (/\ Resolved
     /\ platform # "macos"
     /\ NamedFdInput
     /\ \/ ~NamesVar.set
        \/ ~FdsVar.set
        \/ NoNameEquals
        \/ IsCount(FdsVar.val) /\ Matches = {}) =>
        result = Err(DescriptorsMissing)

\* C4, amended: off macOS, a named `fd://<name>` fails with
\* DescriptorsMissing when a variable is missing, or when both are set,
\* LISTEN_FDS is a count and the name sits at no position below it; with
\* both set and LISTEN_FDS not a count it fails with BadDescriptor instead.
C4_MissingOrBadCount ==
    (/\ Resolved
     /\ platform # "macos"
     /\ NamedFdInput) =>
        /\ (~NamesVar.set \/ ~FdsVar.set) => result = Err(DescriptorsMissing)
        /\ (NamesVar.set /\ FdsVar.set /\ IsCount(FdsVar.val) /\ Matches = {}) =>
              result = Err(DescriptorsMissing)
        /\ (NamesVar.set /\ FdsVar.set /\ ~IsCount(FdsVar.val)) =>
              result = Err(BadDescriptor)

\* a name that no entry equals was looked up with LISTEN_FDS = `3a`
C4_Witness ==
    /\ Resolved
    /\ platform = "linux"
    /\ NamedFdInput
    /\ NamesVar.set
    /\ NoNameEquals
    /\ FdsVar = Value(<<"3", "a">>)
    /\ result = Err(BadDescriptor)

\* a name was looked up with LISTEN_FDNAMES missing
C4_WitnessMissing ==
    /\ Resolved
    /\ platform = "windows"
    /\ NamedFdInput
    /\ ~NamesVar.set
    /\ FdsVar = Value(<<"-", "1">>)
    /\ result = Err(DescriptorsMissing)

\* C5 as stated: `fd://<n>` with a numeric name yields FileDescriptor(n)
\* whatever the environment, also for a number outside the 32-bit range.
C5_Original ==
    (/\ Resolved
     /\ HasPrefix(input, FdPrefix)
     /\ Unsigned(FdName)) =>
        /\ BindingTag(result) = "FileDescriptor"
        /\ FitsI32(FdName) => result.binding.fd = Number(FdName)

\* C5, amended: `fd://<n>` with <n> a decimal integer (an optional sign, then
\* digits) of the 32-bit signed range yields FileDescriptor(n) on every
\* platform, whatever LISTEN_FDS and LISTEN_FDNAMES hold.
C5_ExplicitDescriptor ==
    (/\ Resolved
     /\ HasPrefix(input, FdPrefix)
     /\ FdName # <<>>
     /\ FitsI32(FdName)) =>
        result = Ok(FileDescriptor(Number(FdName)))

\* `fd://-2147483648` was resolved with both variables set
C5_Witness ==
    /\ Resolved
    /\ FdName = <<"-", "2", "1", "4", "7", "4", "8", "3", "6", "4", "8">>
    /\ HasPrefix(input, FdPrefix)
    /\ FdsVar = Value(<<"3", "a">>)
    /\ NamesVar.set
    /\ result = Ok(FileDescriptor(-2147483647 - 1))

\* `\\.\pipe\test`
PipeTest == <<"\\", "\\", ".", "\\", "p", "i", "p", "e", "\\", "t", "e", "s", "t">>

\* C6: `npipe://<rest>` always yields NamedPipe(p): p is <rest> with every /
\* turned into \ when <rest> begins with ., / or \, and \\.\pipe\<rest>
\* otherwise; `npipe://test` and `npipe:////./pipe/test` both yield
\* \\.\pipe\test; a bare string that starts with \\ is kept as it is.
C6_PipeNormalization ==
    Resolved =>
        /\ HasPrefix(input, NpipePrefix) =>
              LET rest == After(input, NpipePrefix)
                  p    == result.binding.pipe
              IN  /\ BindingTag(result) = "NamedPipe"
                  /\ (rest # <<>> /\ rest[1] \in {".", "/", "\\"}) =>
                        /\ Len(p) = Len(rest)
                        /\ \A i \in 1..Len(rest) :
                              p[i] = IF rest[i] = "/" THEN "\\" ELSE rest[i]
                  /\ ~(rest # <<>> /\ rest[1] \in {".", "/", "\\"}) =>
                        /\ Len(p) = Len(rest) + 9
                        /\ SubSeq(p, 1, 9) =
                              <<"\\", "\\", ".", "\\", "p", "i", "p", "e", "\\">>
                        /\ SubSeq(p, 10, Len(p)) = rest
        /\ input = NpipePrefix \o <<"t", "e", "s", "t">> =>
              result = Ok(NamedPipe(PipeTest))
        /\ input = NpipePrefix \o <<"/", "/", ".", "/", "p", "i", "p", "e",
                                    "/", "t", "e", "s", "t">> =>
              result = Ok(NamedPipe(PipeTest))
        /\ HasPrefix(input, BarePrefix) => result = Ok(NamedPipe(input))

\* `npipe:////./pipe/test` was folded into \\.\pipe\test
C6_Witness ==
    /\ Resolved
    /\ input = NpipePrefix \o <<"/", "/", ".", "/", "p", "i", "p", "e",
                                "/", "t", "e", "s", "t">>
    /\ result = Ok(NamedPipe(PipeTest))

\* C7: every NamedPipe binding the resolver produces holds a fully qualified
\* pipe path: \\.\pipe\<name> or another path that begins with \\.
C7_QualifiedPipe ==
    (Resolved /\ BindingTag(result) = "NamedPipe") =>
        HasPrefix(result.binding.pipe, BarePrefix)

----------------------------------------------------------------------------
(* The set_nonblocking loop of `impl From<..> for Listener` / `for Stream`   *)

SetNonblockingOutcomes == {"Ok", "WouldBlock", "Other"}

\* Retry repeating after every error
Retry_AnyError(o) == o # "Ok"

\* `while let Err(e) = ..` without the `break`: the loop goes round again
\* when the attempt failed with ErrorKind::WouldBlock
Retry(o) == o = "WouldBlock"

----------------------------------------------------------------------------
(* Listener::try_from(Binding::FilePath(path)) over a file system.  The     *)
(* process is not privileged and does not own the directory of the paths.   *)

NumCalls == 2    \* the number of try_from calls

Calls == 1..NumCalls
Paths == {"/tmp/a", "/tmp/b"}

\* the directory of the paths: one the process may write, a sticky one (mode
\* 1777, as /tmp), or one the process may not write
DirModes == {"writable", "sticky", "readonly"}
Users    == {"self", "other"}

\* what a path names: nothing, a directory, a regular file or a stale socket
\* file of user u, or the socket file bound by call c
NoNode        == [kind |-> "none", owner |-> 0, user |-> "none"]
DirNode       == [kind |-> "dir", owner |-> 0, user |-> "none"]
FileNode(u)   == [kind |-> "file", owner |-> 0, user |-> u]
StaleNode(u)  == [kind |-> "socket", owner |-> 0, user |-> u]
SocketNode(c) == [kind |-> "socket", owner |-> c, user |-> "self"]

Nodes ==
    {NoNode, DirNode} \cup {FileNode(u) : u \in Users}
                      \cup {StaleNode(u) : u \in Users}

\* unlink(2) succeeds: the path names a file or a socket file, the directory
\* may be written, and in a sticky directory the entry is the process's own
MayUnlink(node, dm) ==
    /\ node.kind \in {"file", "socket"}
    /\ dm # "readonly"
    /\ dm = "sticky" => node.user = "self"

\* RemoveFile that leaves the file where it is
RemoveFile_Noop(files, p, dm) == files

\* `let _ = std::fs::remove_file(&path)`: the entry is unlinked when the
\* process may do so; otherwise it stays and the error is thrown away
RemoveFile(files, p, dm) ==
    IF MayUnlink(files[p], dm) THEN [files EXCEPT ![p] = NoNode] ELSE files

\* UnixListener::bind(path) by call c: the address is in use when the path
\* names anything; a directory that may not be written refuses the new
\* entry; otherwise a socket file is created there
Bind(files, p, c, dm) ==
    IF files[p].kind # "none"
    THEN [ok |-> FALSE, error |-> "AddrInUse", files |-> files]
    ELSE IF dm = "readonly"
    THEN [ok |-> FALSE, error |-> "PermissionDenied", files |-> files]
    ELSE [ok |-> TRUE, error |-> "none",
          files |-> [files EXCEPT ![p] = SocketNode(c)]]

\* what `?` makes of bind's result
Returned(bound) == IF bound.ok THEN "Ok" ELSE bound.error

FilesInit ==
    /\ fs \in [Paths -> Nodes]
    /\ dir \in DirModes
    /\ path \in [Calls -> Paths]
    /\ pc = [c \in Calls |-> "remove"]
    /\ ret = [c \in Calls |-> "none"]
    /\ mode = [c \in Calls |-> FALSE]
    /\ open = {}
    /\ log = <<>>
    /\ platform = "linux"
    /\ ResolverIdle
    /\ MaterializerIdle

\* the whole of Listener::try_from(Binding::FilePath(path[c])): remove_file,
\* then bind, then `.into()` with its set_nonblocking loop.  `last` is the
\* answer that ended the loop, or WouldBlock when every attempt gave it: the
\* call is then still in the loop and does not return.  The calls run on
\* one thread: none begins while an earlier one has not returned.
Listen(c) ==
    /\ pc[c] = "remove"
    /\ \A d \in Calls : pc[d] # "nonblock"
    /\ LET bound == Bind(RemoveFile(fs, path[c], dir), path[c], c, dir)
       IN  /\ fs' = bound.files
           /\ open' = IF bound.ok THEN open \cup {c} ELSE open
           /\ log' = log \o << [op |-> "remove", call |-> c,
                                ok |-> MayUnlink(fs[path[c]], dir)],
                               [op |-> "bind", call |-> c, ok |-> bound.ok] >>
           /\ \E last \in SetNonblockingOutcomes :
                 IF bound.ok /\ Retry(last)
                 THEN /\ pc' = [pc EXCEPT ![c] = "nonblock"]
                      /\ UNCHANGED <<ret, mode>>
                 ELSE /\ pc' = [pc EXCEPT ![c] = "done"]
                      /\ ret' = [ret EXCEPT ![c] = Returned(bound)]
                      /\ mode' = [mode EXCEPT ![c] = bound.ok /\ last = "Ok"]
    /\ UNCHANGED <<path, dir, platform, rvars, mvars>>

\* the caller drops the listener it was returned: the descriptor is closed,
\* the socket file stays
Drop(c) ==
    /\ c \in open
    /\ pc[c] = "done"
    /\ open' = open \ {c}
    /\ UNCHANGED <<fs, dir, path, pc, ret, mode, log, platform, rvars, mvars>>

\* the thread that made the calls drops a listener: not while a call of its
\* own has not returned
DropAfter(c) ==
    /\ \A d \in Calls : pc[d] # "nonblock"
    /\ Drop(c)

\* the calls run one after the other
ListenNext == \E c \in Calls : Listen(c) \/ DropAfter(c)

ListenSpec == FilesInit /\ [][ListenNext]_vars

\* the steps of concurrent calls: line 264, line 265, then one turn of the
\* loop behind `.into()`
RemoveStep(c) ==
    /\ pc[c] = "remove"
    /\ fs' = RemoveFile(fs, path[c], dir)
    /\ pc' = [pc EXCEPT ![c] = "bind"]
    /\ log' = Append(log, [op |-> "remove", call |-> c,
                           ok |-> MayUnlink(fs[path[c]], dir)])
    /\ UNCHANGED <<dir, path, ret, mode, open, platform, rvars, mvars>>

BindStep(c) ==
    /\ pc[c] = "bind"
    /\ LET bound == Bind(fs, path[c], c, dir)
       IN  /\ fs' = bound.files
           /\ open' = IF bound.ok THEN open \cup {c} ELSE open
           /\ log' = Append(log, [op |-> "bind", call |-> c, ok |-> bound.ok])
           /\ IF bound.ok
              THEN /\ pc' = [pc EXCEPT ![c] = "nonblock"]
                   /\ ret' = ret
              ELSE /\ pc' = [pc EXCEPT ![c] = "done"]
                   /\ ret' = [ret EXCEPT ![c] = Returned(bound)]
    /\ UNCHANGED <<dir, path, mode, platform, rvars, mvars>>

\* one set_nonblocking(true) and the loop's test of its answer
NonblockStep(c) ==
    /\ pc[c] = "nonblock"
    /\ \E o \in SetNonblockingOutcomes :
          IF Retry(o)
          THEN UNCHANGED <<pc, ret, mode>>
          ELSE /\ pc' = [pc EXCEPT ![c] = "done"]
               /\ ret' = [ret EXCEPT ![c] = "Ok"]
               /\ mode' = [mode EXCEPT ![c] = (o = "Ok")]
    /\ UNCHANGED <<fs, dir, path, open, log, platform, rvars, mvars>>

RaceNext ==
    \E c \in Calls : RemoveStep(c) \/ BindStep(c) \/ NonblockStep(c) \/ Drop(c)

RaceSpec == FilesInit /\ [][RaceNext]_vars

----------------------------------------------------------------------------
(* Claims about Listener::try_from(Binding::FilePath(path)) *)

\* the place in the log of call c's remove_file or bind step
Pos(op, c) == CHOOSE i \in 1..Len(log) : log[i].op = op /\ log[i].call = c
Ran(op, c) == \E i \in 1..Len(log) : log[i].op = op /\ log[i].call = c

CallsOn(p) == {c \in Calls : path[c] = p}

\* the calls whose bind on p succeeded, and the one whose bind did so last
BoundOn(p) == {c \in CallsOn(p) : Ran("bind", c) /\ log[Pos("bind", c)].ok}
LastBoundOn(p) ==
    CHOOSE c \in BoundOn(p) : \A d \in BoundOn(p) : Pos("bind", d) <= Pos("bind", c)

\* the path names something the process cannot unlink: a directory, any
\* entry of a directory it may not write, another user's entry in a sticky
\* directory
Immovable(p) ==
    \/ fs[p].kind = "dir"
    \/ /\ fs[p].kind \in {"file", "socket"}
       /\ \/ dir = "readonly"
          \/ dir = "sticky" /\ fs[p].user = "other"

\* the path names nothing and the directory takes no new entry
Closed(p) == fs[p].kind = "none" /\ dir = "readonly"

\* C8 as stated: sequential materializations of FilePath(path) all succeed,
\* whether or not an earlier listener was dropped and whatever was at the
\* path before; after each one the path names the newest listener's socket
\* file.
C8_Original ==
    /\ \A c \in Calls : pc[c] = "done" => ret[c] = "Ok"
    /\ \A p \in Paths :
          BoundOn(p) # {} => fs[p] = SocketNode(LastBoundOn(p))

\* C8, amended: the unlink's error is ignored, so what the process cannot
\* unlink stays at the path.  A sequential materialization that returns
\* fails with bind's AddrInUse exactly when the path names such an entry,
\* with PermissionDenied exactly when the path names nothing in a directory
\* the process may not write, and succeeds otherwise, whether or not an
\* earlier listener was dropped and whether the path named nothing, a file
\* or a stale socket file; so the calls on one path fail or succeed alike,
\* and after a bind the path names the newest listener's socket file.
C8_SequentialListensSucceed ==
    /\ \A c \in Calls :
          pc[c] = "done" =>
              /\ ret[c] = "AddrInUse" <=> Immovable(path[c])
              /\ ret[c] = "PermissionDenied" <=> Closed(path[c])
              /\ ret[c] = "Ok" <=> (~Immovable(path[c]) /\ ~Closed(path[c]))
    /\ \A p \in Paths :
          BoundOn(p) # {} => fs[p] = SocketNode(LastBoundOn(p))

\* two calls on one path have returned, the first one's listener still open
C8_Witness ==
    \E c, d \in Calls :
        /\ c # d
        /\ path[c] = path[d]
        /\ pc[c] = "done" /\ pc[d] = "done"
        /\ Pos("bind", c) < Pos("remove", d)
        /\ c \in open
        /\ ret[c] = "Ok" /\ ret[d] = "Ok"
        /\ fs[path[d]] = SocketNode(d)

\* two calls on one path have returned, the first one's listener dropped
C8_WitnessDropped ==
    \E c, d \in Calls :
        /\ c # d
        /\ path[c] = path[d]
        /\ pc[c] = "done" /\ pc[d] = "done"
        /\ Pos("bind", c) < Pos("remove", d)
        /\ c \notin open
        /\ ret[c] = "Ok" /\ ret[d] = "Ok"

\* another user's stale socket file in a sticky directory: two calls on the
\* path have returned, both failed, the file is still there
C8_WitnessImmovable ==
    \E c, d \in Calls :
        /\ c # d
        /\ path[c] = path[d]
        /\ pc[c] = "done" /\ pc[d] = "done"
        /\ ret[c] = "AddrInUse" /\ ret[d] = "AddrInUse"
        /\ dir = "sticky"
        /\ fs[path[c]] = StaleNode("other")

\* C9 as stated: concurrent calls on one path, their steps interleaved in any
\* order, all return a listener, and the path names the socket file of the
\* call whose bind ran last.
C9_Original ==
    \A c, d \in Calls :
        (/\ c # d
         /\ path[c] = path[d]
         /\ pc[c] = "done" /\ pc[d] = "done"
         /\ Pos("bind", c) < Pos("bind", d)) =>
            /\ ret[c] = "Ok"
            /\ ret[d] = "Ok"
            /\ fs[path[d]].owner # c

\* another call's bind on the same path succeeded between c's remove_file
\* and c's bind, and no call unlinked that socket file before c's bind
Overtaken(c) ==
    \E d \in Calls :
        /\ d # c
        /\ path[d] = path[c]
        /\ Ran("bind", d)
        /\ log[Pos("bind", d)].ok
        /\ Pos("remove", c) < Pos("bind", d)
        /\ Pos("bind", d) < Pos("bind", c)
        /\ ~\E e \in Calls :
              /\ path[e] = path[c]
              /\ Ran("remove", e)
              /\ Pos("bind", d) < Pos("remove", e)
              /\ Pos("remove", e) < Pos("bind", c)

\* C9, amended: of concurrent calls on one path, a call that returns fails
\* with AddrInUse exactly when the path names an entry the process cannot
\* unlink or another call's bind succeeded between its own remove_file and
\* its own bind (and, with more than two calls, no third call unlinked that
\* socket file in between), fails with PermissionDenied exactly when the
\* path names nothing in a directory the process may not write, and returns
\* a listener otherwise; once all have returned, either the path was such
\* that none could bind, or at least one has a listener and the path names
\* the socket file of the call whose bind succeeded last: the listeners
\* bound before it are orphaned.
C9_LastSuccessfulBindWins ==
    /\ \A c \in Calls :
          pc[c] = "done" =>
              /\ ret[c] = "AddrInUse" <=> (Overtaken(c) \/ Immovable(path[c]))
              /\ ret[c] = "PermissionDenied" <=> Closed(path[c])
              /\ ret[c] = "Ok" <=>
                    (~Overtaken(c) /\ ~Immovable(path[c]) /\ ~Closed(path[c]))
    /\ \A p \in Paths :
          (CallsOn(p) # {} /\ \A c \in CallsOn(p) : pc[c] = "done") =>
              \/ /\ BoundOn(p) # {}
                 /\ fs[p] = SocketNode(LastBoundOn(p))
              \/ /\ BoundOn(p) = {}
                 /\ Immovable(p) \/ Closed(p)

\* both calls unlinked before either bound: the second bind found the first
\* one's socket file
C9_Witness ==
    \E c, d \in Calls :
        /\ c # d
        /\ path[c] = path[d]
        /\ pc[c] = "done" /\ pc[d] = "done"
        /\ Pos("remove", d) < Pos("bind", c)
        /\ Pos("bind", c) < Pos("bind", d)
        /\ ret[c] = "Ok"
        /\ ret[d] = "AddrInUse"
        /\ fs[path[c]] = SocketNode(c)

\* the second call unlinked the first one's socket file and bound its own:
\* both returned a listener, the first one orphaned
C9_WitnessOrphaned ==
    \E c, d \in Calls :
        /\ c # d
        /\ path[c] = path[d]
        /\ pc[c] = "done" /\ pc[d] = "done"
        /\ Pos("remove", c) < Pos("remove", d)
        /\ Pos("bind", c) < Pos("remove", d)
        /\ ret[c] = "Ok" /\ ret[d] = "Ok"
        /\ c \in open
        /\ fs[path[c]] = SocketNode(d)

\* another user's file in a sticky directory: both concurrent calls failed
C9_WitnessImmovable ==
    \E c, d \in Calls :
        /\ c # d
        /\ path[c] = path[d]
        /\ pc[c] = "done" /\ pc[d] = "done"
        /\ Pos("remove", d) < Pos("bind", c)
        /\ ret[c] = "AddrInUse" /\ ret[d] = "AddrInUse"
        /\ dir = "sticky"
        /\ fs[path[c]] = FileNode("other")

----------------------------------------------------------------------------
(* One Listener::try_from(binding) or Stream::try_from(binding), step by    *)
(* step: the match arm, then the set_nonblocking loop of the From impls     *)

MaxAttempts == 3    \* `attempts` counts up to this and stays there

MatBindings ==
    { FileDescriptor(SD_LISTEN_FDS_START),
      FileDescriptor(-1),
      FilePath(<<"/", "a">>),
      Sockets(<<"v4">>),
      Sockets(<<"v4", "v6">>),
      NamedPipe(PipeRoot \o <<"a">>) }

Targets == {"Listener", "Stream"}

\* cfg(unix)
IsUnix(plat) == plat \in {"linux", "macos"}

\* Listener::Unix / Tcp / NamedPipe, Stream::Unix / Tcp / NamedPipe
Variant(b) ==
    IF b.tag = "NamedPipe" THEN "NamedPipe"
    ELSE IF b.tag = "Sockets" THEN "Tcp"
    ELSE "Unix"

Handle(b, nb) == [ok |-> TRUE, variant |-> Variant(b), nonblocking |-> nb]
IoError(kind) == [ok |-> FALSE, error |-> [kind |-> kind]]

MatInit ==
    /\ binding \in MatBindings
    /\ target \in Targets
    /\ platform \in Platforms
    /\ mpc = "match"
    /\ outcome = "none"
    /\ attempts = 0
    /\ nonblocking = FALSE
    /\ mret = NoResult
    /\ ResolverIdle
    /\ FilesIdle

\* Binding::FileDescriptor(-1) on unix: from_raw_fd asserts fd != -1 and
\* panics; try_from does not return
AdoptPanics ==
    /\ mpc = "match"
    /\ binding.tag = "FileDescriptor"
    /\ IsUnix(platform)
    /\ binding.fd = -1
    /\ mpc' = "panicked"
    /\ UNCHANGED <<binding, target, outcome, attempts, nonblocking, mret,
                   platform, rvars, fvars>>

\* Binding::FileDescriptor on unix: from_raw_fd adopts any other descriptor
\* as it is, in whichever mode it was inherited
AdoptDescriptor ==
    /\ mpc = "match"
    /\ binding.tag = "FileDescriptor"
    /\ IsUnix(platform)
    /\ binding.fd # -1
    /\ nonblocking' \in BOOLEAN
    /\ mpc' = "call"
    /\ UNCHANGED <<binding, target, outcome, attempts, mret, platform, rvars, fvars>>

\* Binding::FilePath on unix: remove_file and UnixListener::bind, or
\* UnixStream::connect; Binding::Sockets: TcpListener::bind or
\* TcpStream::connect.  The `?` returns the call's error.
BindOrConnect ==
    /\ mpc = "match"
    /\ \/ binding.tag = "FilePath" /\ IsUnix(platform)
       \/ binding.tag = "Sockets"
    /\ \E opened \in BOOLEAN :
          IF opened
          THEN /\ mpc' = "call"
               /\ mret' = mret
          ELSE /\ mpc' = "done"
               /\ mret' = IoError("Os")
    /\ UNCHANGED <<binding, target, outcome, attempts, nonblocking, platform,
                   rvars, fvars>>

\* Binding::NamedPipe: the path is wrapped, nothing is opened
WrapPipe ==
    /\ mpc = "match"
    /\ binding.tag = "NamedPipe"
    /\ mpc' = "done"
    /\ mret' = Handle(binding, nonblocking)
    /\ UNCHANGED <<binding, target, outcome, attempts, nonblocking, platform,
                   rvars, fvars>>

\* cfg(not(unix)): every other binding is Error::UnsupportedScheme
Unsupported ==
    /\ mpc = "match"
    /\ binding.tag \in {"FileDescriptor", "FilePath"}
    /\ ~IsUnix(platform)
    /\ mpc' = "done"
    /\ mret' = IoError("UnsupportedScheme")
    /\ UNCHANGED <<binding, target, outcome, attempts, nonblocking, platform,
                   rvars, fvars>>

\* `listener.set_nonblocking(true)`: the system's answer
SetNonblocking ==
    /\ mpc = "call"
    /\ \E o \in SetNonblockingOutcomes :
          /\ outcome' = o
          /\ nonblocking' = (nonblocking \/ o = "Ok")
    /\ attempts' = IF attempts < MaxAttempts THEN attempts + 1 ELSE attempts
    /\ mpc' = "test"
    /\ UNCHANGED <<binding, target, mret, platform, rvars, fvars>>

\* Wrapped reporting the error that ended the loop
Wrapped_SurfaceError(b, nb, o) ==
    IF o = "Ok" THEN Handle(b, nb) ELSE IoError("Os")

\* past the loop: `Listener::Unix(listener)` inside `Ok(...)`, whichever
\* outcome o ended the loop
Wrapped(b, nb, o) == Handle(b, nb)

\* the loop's test, and past the loop the handle wrapped in its variant
TestOutcome ==
    /\ mpc = "test"
    /\ IF Retry(outcome)
       THEN /\ mpc' = "call"
            /\ mret' = mret
       ELSE /\ mpc' = "done"
            /\ mret' = Wrapped(binding, nonblocking, outcome)
    /\ UNCHANGED <<binding, target, outcome, attempts, nonblocking, platform,
                   rvars, fvars>>

MatNext ==
    \/ AdoptPanics
    \/ AdoptDescriptor
    \/ BindOrConnect
    \/ WrapPipe
    \/ Unsupported
    \/ SetNonblocking
    \/ TestOutcome

MaterializeSpec == MatInit /\ [][MatNext]_vars

\* the calling thread keeps running: a step that can be taken is taken
MaterializeFairSpec == MatInit /\ [][MatNext]_vars /\ WF_vars(MatNext)

----------------------------------------------------------------------------
(* Claims about the set_nonblocking loop *)

\* C10 as stated: whatever the attempts return, the loop makes finitely many
\* of them and the conversion into Listener/Stream returns.
C10_Original == (mpc = "call") ~> (mpc = "done")

\* C10, amended: the loop has no bound; it goes round again after every
\* WouldBlock and ends at the first attempt that succeeds or fails with
\* another error, after which the conversion returns the handle.
C10_ReturnsAfterFinalOutcome ==
    /\ (mpc = "test" /\ outcome # "WouldBlock") ~> (mpc = "done" /\ mret.ok)
    /\ [](mpc = "call" => outcome \in {"none", "WouldBlock"})
    /\ []((mpc = "done" /\ mret.ok /\ mret.variant # "NamedPipe") =>
              outcome \in {"Ok", "Other"})

\* the loop went round after WouldBlock and the conversion then returned
C10_Witness ==
    /\ mpc = "done"
    /\ mret.ok
    /\ attempts >= 2
    /\ outcome = "Other"

\* WouldBlock again at the model's last counted attempt: the loop goes on
C10_WitnessStillRetrying ==
    /\ mpc = "call"
    /\ attempts = MaxAttempts
    /\ outcome = "WouldBlock"

\* C11: a failed set_nonblocking never becomes an error of try_from: the
\* loop goes round again only after WouldBlock, ends at the first success or
\* other error, and the handle is then returned as Ok in either case; the
\* errors try_from returns are those of bind/connect, made before any
\* attempt, and UnsupportedScheme off unix.
C11_FailureSwallowed ==
    /\ [][(mpc = "test" /\ mpc' = "call") => outcome = "WouldBlock"]_vars
    /\ [][(mpc = "test" /\ outcome # "WouldBlock") =>
              (/\ mpc' = "done"
               /\ mret'.ok
               /\ mret'.nonblocking = nonblocking)]_vars
    /\ [](mpc = "done" /\ attempts > 0 => mret.ok)
    /\ []((mpc = "done" /\ ~mret.ok) =>
              /\ attempts = 0
              /\ outcome = "none"
              /\ \/ /\ mret.error.kind = "Os"
                    /\ \/ binding.tag = "Sockets"
                       \/ binding.tag = "FilePath" /\ IsUnix(platform)
                 \/ /\ mret.error.kind = "UnsupportedScheme"
                    /\ ~IsUnix(platform)
                    /\ binding.tag \in {"FileDescriptor", "FilePath"})

\* a bound listener whose set_nonblocking failed with another error was
\* returned as Ok, still in blocking mode
C11_Witness ==
    /\ mpc = "done"
    /\ target = "Listener"
    /\ binding.tag = "FilePath"
    /\ outcome = "Other"
    /\ mret.ok
    /\ ~mret.nonblocking

\* try_from returned the error of bind or connect, no attempt made
C11_WitnessBindError ==
    /\ mpc = "done"
    /\ ~mret.ok
    /\ mret.error.kind = "Os"
    /\ attempts = 0

=============================================================================
